---- MODULE Spec2Model ----
(***************************************************************************)
(* Model of the latent-diffusion training driver                           *)
(*   src/models/diffusers/examples/unconditional_image_generation/         *)
(*   train_ldm.py                                                          *)
(*                                                                         *)
(* Two specifications:                                                     *)
(*   SpecParse : parse_args() (lines 59-279) over command lines and the    *)
(*               LOCAL_RANK environment variable;                          *)
(*   Spec      : main(args) (lines 292-1103) as seen by one process, from  *)
(*               the logger check to accelerator.end_training().           *)
(*                                                                         *)
(* Python values.  A str is a sequence of one-character strings; None is   *)
(* the one-element sequence <<"None">>, which is no str.  Exceptions end   *)
(* the run: pc = "raised" and error names the exception class.             *)
(***************************************************************************)
EXTENDS Integers, Sequences, FiniteSets, TLC

VARIABLES
    pc,              \* position of the process in parse_args / main
    error,           \* exception class that ended the run, or "none"
    argv,            \* the command line, as flag values before argparse conversion
    environ,         \* os.environ["LOCAL_RANK"], or None when unset
    args,            \* the argparse Namespace
    tensorboard_available,  \* is_tensorboard_available()
    wandb_available,        \* is_wandb_available()
    is_main_process, \* accelerator.is_main_process
    num_batches,     \* len(train_dataloader)
    output_dir,      \* os.listdir(args.output_dir)
    bound,           \* names of main's locals that are bound
    ddim_sampler,    \* main's ddim_sampler
    dataset,         \* loader that built `dataset`, and the path it was given
    transform_set,   \* dataset.set_transform(transform_images) was called
    path,            \* main's local `path` of the resume block
    loaded_path,     \* argument of torch.load, None if never called
    first_epoch,
    resume_step,
    epoch,
    step,            \* index of the next batch of enumerate(train_dataloader)
    accum_step,      \* accelerator's accumulation counter
    global_step,
    calls,           \* number of calls of backward / optimizer.step / lr_scheduler.step / ema_model.step
    logs,            \* the per-batch metrics record `logs`: {} before the first, then {record}
    tracker_log,     \* global_step of every accelerator.log call
    sampled,         \* epochs whose sampling loop ran, with its parameters
    pipeline,        \* epoch in which `pipeline` was constructed
    unet_weights,    \* which weights the denoiser holds: "trained" or "ema"
    save_state_calls,    \* paths given to accelerator.save_state
    pipeline_saves,      \* (epoch of the save, epoch the pipeline was built in)
    ended,           \* number of accelerator.end_training() calls
    ranks,           \* multi-process run: each process's position in the loop of line 884
    effects          \* multi-process run: sampling loops, saves and pushes performed

vars == <<pc, error, argv, environ, args, tensorboard_available, wandb_available,
          is_main_process, num_batches, output_dir, bound, ddim_sampler, dataset,
          transform_set, path, loaded_path, first_epoch, resume_step, epoch, step,
          accum_step, global_step, calls, logs, tracker_log, sampled, pipeline,
          unet_weights, save_state_calls, pipeline_saves, ended, ranks, effects>>

rankVars == <<ranks, effects>>

mainVars == <<tensorboard_available, wandb_available, is_main_process, num_batches,
              output_dir, bound, ddim_sampler, dataset, transform_set, path,
              loaded_path, first_epoch, resume_step, epoch, step, accum_step,
              global_step, calls, logs, tracker_log, sampled, pipeline,
              unet_weights, save_state_calls, pipeline_saves, ended>>

----------------------------------------------------------------------------
(* Bounds of the model *)

MaxEpochs == 3      \* args.num_epochs ranges over 1..MaxEpochs
MaxPeriod == 3      \* save_images_epochs, save_model_epochs range over 1..MaxPeriod
MaxBatches == 3     \* len(train_dataloader) ranges over 1..MaxBatches
MaxProcs == 3       \* accelerator.num_processes ranges over 2..MaxProcs

----------------------------------------------------------------------------
(* Python values *)

None == <<"None">>

\* str literals used by the program and its inputs
S_latest == <<"l","a","t","e","s","t">>
S_checkpoint == <<"c","h","e","c","k","p","o","i","n","t">>
S_logs == <<"l","o","g","s">>
S_unet == <<"u","n","e","t">>
S_scheduler == <<"s","c","h","e","d","u","l","e","r">>
S_epsilon == <<"e","p","s","i","l","o","n">>
S_sample == <<"s","a","m","p","l","e">>
S_v_prediction == <<"v","_","p","r","e","d","i","c","t","i","o","n">>
S_tensorboard == <<"t","e","n","s","o","r","b","o","a","r","d">>
S_wandb == <<"w","a","n","d","b">>
S_multid == <<"m","u","l","t","i","d">>
S_clevr == <<"c","l","e","v","r">>
S_clevrtex == <<"c","l","e","v","r","t","e","x">>
S_movi_e == <<"m","o","v","i","-","e">>
S_movi_c == <<"m","o","v","i","-","c">>
S_msn_easy == <<"m","s","n","-","e","a","s","y">>
S_PTR == <<"P","T","R">>
S_cifar10 == <<"c","i","f","a","r","1","0">>
S_data == <<"d","a","t","a">>

\* `sub in s` on str
In(sub, s) ==
    \E i \in 0..(Len(s) - Len(sub)) : SubSeq(s, i + 1, i + Len(sub)) = sub

\* s.startswith(prefix)
StartsWith(s, prefix) ==
    /\ Len(s) >= Len(prefix)
    /\ SubSeq(s, 1, Len(prefix)) = prefix

DigitChars == <<"0","1","2","3","4","5","6","7","8","9">>

DigitValue(c) == (CHOOSE d \in 1..10 : DigitChars[d] = c) - 1

\* str(n) for n >= 0, as the f-string f"checkpoint-{epoch}" formats it
RECURSIVE StrOfNat(_)
StrOfNat(n) ==
    IF n < 10 THEN <<DigitChars[n + 1]>>
    ELSE StrOfNat(n \div 10) \o <<DigitChars[(n % 10) + 1]>>

RECURSIVE NatOfDigits(_)
NatOfDigits(ds) ==
    IF Len(ds) = 0 THEN 0
    ELSE 10 * NatOfDigits(SubSeq(ds, 1, Len(ds) - 1)) + DigitValue(ds[Len(ds)])

\* int(s) for an integer literal s
IntOf(s) ==
    IF Len(s) > 0 /\ s[1] = "-" THEN 0 - NatOfDigits(Tail(s)) ELSE NatOfDigits(s)

\* s.split("-")
RECURSIVE Split(_)
Split(s) ==
    IF \A i \in 1..Len(s) : s[i] # "-" THEN <<s>>
    ELSE LET k == CHOOSE i \in 1..Len(s) :
                      /\ s[i] = "-"
                      /\ \A j \in 1..(i - 1) : s[j] # "-"
         IN <<SubSeq(s, 1, k - 1)>> \o Split(SubSeq(s, k + 1, Len(s)))

----------------------------------------------------------------------------
(* parse_args *)

\* Values a command line gives the flags the model varies; None: flag absent.
\* Only command lines argparse accepts are drawn (choices and type=int hold).
ArgvDatasetNames == {None, S_cifar10, S_clevr, S_multid}
ArgvTrainDataDirs == {None, S_data}
IntLiterals == {<<"-","1">>, <<"0">>, <<"1">>, <<"1","0">>}

Argvs ==
    [dataset_name : ArgvDatasetNames,
     dataset_mo : BOOLEAN,
     train_data_dir : ArgvTrainDataDirs,
     local_rank : {None} \cup IntLiterals,
     prediction_type : {None, S_epsilon, S_sample},
     logger : {None, S_tensorboard, S_wandb}]

\* LOCAL_RANK as a launcher sets it: unset, or an integer literal
Environs == {None} \cup IntLiterals

\* add_argument(..., default=d): the flag's value, or d when the flag is absent
Default(v, d) == IF v = None THEN d ELSE v

\* parser.parse_args() (line 271) with the defaults of lines 61-269
Namespace(av) ==
    [dataset_name |-> av.dataset_name,
     dataset_mo |-> av.dataset_mo,
     train_data_dir |-> av.train_data_dir,
     model_config_name_or_path |-> None,
     num_epochs |-> 100,
     save_images_epochs |-> 5,
     save_model_epochs |-> 10,
     gradient_accumulation_steps |-> 1,
     use_ema |-> FALSE,
     logger |-> Default(av.logger, S_tensorboard),
     local_rank |-> IF av.local_rank = None THEN -1 ELSE IntOf(av.local_rank),
     prediction_type |-> Default(av.prediction_type, S_epsilon),
     resume_from_checkpoint |-> None,
     eval_batch_size |-> 16,
     ddpm_num_inference_steps |-> 1000,
     checkpointing_steps |-> 500]

\* line 272: int(os.environ.get("LOCAL_RANK", -1))
EnvLocalRank(env) == IF env = None THEN -1 ELSE IntOf(env)

\* lines 273-274 (mutant: the environment variable is read but never applied)
LocalRankOverride_NoEnv(a, env) == a

LocalRankOverride(a, env) ==
    LET env_local_rank == EnvLocalRank(env)
    IN IF env_local_rank # -1 /\ env_local_rank # a.local_rank
       THEN [a EXCEPT !.local_rank = env_local_rank]
       ELSE a

\* line 276 (mutants: only dataset_name is looked at; `is None` slipped to `is not None`)
DatasetSourceMissing_NameOnly(a) == a.dataset_name = None

DatasetSourceMissing_Slip(a) ==
    a.dataset_name = None /\ a.train_data_dir # None

DatasetSourceMissing(a) ==
    a.dataset_name = None /\ a.train_data_dir = None

NoArgs == Namespace([dataset_name |-> None, dataset_mo |-> FALSE,
                     train_data_dir |-> None, local_rank |-> None,
                     prediction_type |-> None, logger |-> None])

\* main's locals and the observers before main runs
LocalsInit ==
    /\ bound = {}
    /\ ddim_sampler = FALSE
    /\ dataset = [loader |-> "unbound", source |-> None]
    /\ transform_set = FALSE
    /\ path = None
    /\ loaded_path = None
    /\ first_epoch = 0
    /\ resume_step = 0
    /\ epoch = 0
    /\ step = 0
    /\ accum_step = 0
    /\ global_step = 0
    /\ calls = [backward |-> 0, optimizer_step |-> 0, lr_scheduler_step |-> 0, ema_step |-> 0]
    /\ logs = {}
    /\ tracker_log = <<>>
    /\ sampled = {}
    /\ pipeline = -1
    /\ unet_weights = "trained"
    /\ save_state_calls = {}
    /\ pipeline_saves = {}
    /\ ended = 0

\* a run of one process: no other rank
SingleProcess ==
    /\ ranks = <<>>
    /\ effects = {}

MainIdle ==
    /\ tensorboard_available = TRUE
    /\ wandb_available = TRUE
    /\ is_main_process = TRUE
    /\ num_batches = 1
    /\ output_dir = {}
    /\ LocalsInit

InitParse ==
    /\ pc = "parse_args"
    /\ error = "none"
    /\ argv \in Argvs
    /\ environ \in Environs
    /\ args = NoArgs
    /\ MainIdle
    /\ SingleProcess

\* parse_args(), lines 59-279
ParseArgs ==
    /\ pc = "parse_args"
    /\ LET a == LocalRankOverride(Namespace(argv), environ)
       IN /\ args' = a
          /\ IF DatasetSourceMissing(a)
             THEN pc' = "raised" /\ error' = "ValueError"
             ELSE pc' = "returned" /\ error' = "none"
    /\ UNCHANGED <<argv, environ>>
    /\ UNCHANGED mainVars
    /\ UNCHANGED rankVars

NextParse == ParseArgs

SpecParse == InitParse /\ [][NextParse]_vars

\* C1: parse_args raises ValueError exactly when dataset_name and train_data_dir
\* are both unset; whenever at least one is set it returns the parsed
\* configuration, which carries the two flags as given.
C1_RaisesIffNoSource ==
    pc # "parse_args" =>
        /\ (pc = "raised" /\ error = "ValueError")
               <=> (argv.dataset_name = None /\ argv.train_data_dir = None)
        /\ (pc = "returned" /\ error = "none")
               <=> (argv.dataset_name # None \/ argv.train_data_dir # None)
        /\ pc = "returned" =>
               /\ args.dataset_name = argv.dataset_name
               /\ args.train_data_dir = argv.train_data_dir

C1_Witness ==
    /\ pc = "raised"
    /\ error = "ValueError"
    /\ argv.dataset_name = None
    /\ argv.train_data_dir = None

\* C3 (as claimed): parse_args never returns a configuration in which
\* dataset_name and train_data_dir are both set.
C3_NeverBothSet ==
    pc = "returned" => ~(args.dataset_name # None /\ args.train_data_dir # None)

\* C3 (amended): parse_args never returns a configuration in which dataset_name
\* and train_data_dir are both unset; a configuration with both set is returned.
C3_NeverBothUnset ==
    pc = "returned" => (args.dataset_name # None \/ args.train_data_dir # None)

C3_Witness ==
    pc = "returned" /\ args.dataset_name # None /\ args.train_data_dir # None

\* C6: after parse_args, if LOCAL_RANK is set to a value other than -1 then
\* args.local_rank is that value; if LOCAL_RANK is unset or -1, args.local_rank
\* is the --local_rank value of the command line (-1 when the flag is absent).
C6_LocalRankOverride ==
    pc # "parse_args" =>
        LET cli == IF argv.local_rank = None THEN -1 ELSE IntOf(argv.local_rank)
        IN IF environ # None /\ IntOf(environ) # -1
           THEN args.local_rank = IntOf(environ)
           ELSE args.local_rank = cli

C6_Witness ==
    /\ pc = "returned"
    /\ environ = <<"1","0">>
    /\ argv.local_rank = <<"1">>
    /\ args.local_rank = 10

----------------------------------------------------------------------------
(* main: inputs *)

S_out_ckpt_pt == <<"o","u","t","/","c","k","p","t",".","p","t">>
S_unet_json == <<"u","n","e","t",".","j","s","o","n">>

\* f"checkpoint-{epoch}" (line 1094; os.path.join leaves it the entry's name)
CheckpointName(e) == S_checkpoint \o <<"-">> \o StrOfNat(e)

\* gradient_accumulation_steps values of the model
AccumChoices == {1, 2, 3}

\* Namespaces main is called with.  parse_args' dataset check holds of them;
\* prediction_type also takes a value outside argparse's choices, the case
\* the else branch of line 967 is written for.  eval_batch_size,
\* ddpm_num_inference_steps and checkpointing_steps are read nowhere in main,
\* so one value each per family is all there is to draw.
SetupArgs ==
    [dataset_name : {None, S_cifar10, S_clevr, S_clevrtex},
     dataset_mo : BOOLEAN,
     train_data_dir : {None, S_data},
     model_config_name_or_path : {None, S_unet_json},
     num_epochs : {1},
     save_images_epochs : {1},
     save_model_epochs : {1},
     gradient_accumulation_steps : {1},
     use_ema : BOOLEAN,
     logger : {S_tensorboard, S_wandb},
     local_rank : {-1},
     prediction_type : {S_epsilon, S_sample, S_v_prediction},
     resume_from_checkpoint : {None, S_latest, S_out_ckpt_pt},
     eval_batch_size : {16},
     ddpm_num_inference_steps : {1000},
     checkpointing_steps : {1}]

LoopArgs ==
    [dataset_name : {None, S_cifar10},
     dataset_mo : {FALSE},
     train_data_dir : {S_data},
     model_config_name_or_path : {None},
     num_epochs : 1..MaxEpochs,
     save_images_epochs : 1..MaxPeriod,
     save_model_epochs : 1..MaxPeriod,
     gradient_accumulation_steps : AccumChoices,
     use_ema : BOOLEAN,
     logger : {S_tensorboard, S_wandb},
     local_rank : {-1},
     prediction_type : {S_epsilon, S_sample, S_v_prediction},
     resume_from_checkpoint : {None, S_latest, S_out_ckpt_pt},
     eval_batch_size : {8},
     ddpm_num_inference_steps : {50},
     checkpointing_steps : {2}]

\* Contents of output_dir before the run
Listings ==
    {{}, {S_logs}, {S_logs, CheckpointName(2)},
     {CheckpointName(2), CheckpointName(10)},
     {S_logs, S_unet, CheckpointName(0), CheckpointName(9), CheckpointName(10)}}

Init ==
    /\ pc = "main"
    /\ error = "none"
    /\ argv = None
    /\ environ = None
    /\ \/ /\ args \in {a \in SetupArgs : ~DatasetSourceMissing(a)}
          /\ tensorboard_available \in BOOLEAN
          /\ wandb_available \in BOOLEAN
          /\ is_main_process \in BOOLEAN
          /\ num_batches = 1
          /\ output_dir \in Listings
       \/ /\ args \in LoopArgs
          /\ tensorboard_available = TRUE
          /\ wandb_available = TRUE
          /\ is_main_process \in BOOLEAN
          /\ num_batches \in 1..MaxBatches
          /\ output_dir \in {{}, {S_logs, CheckpointName(9), CheckpointName(10)}}
    /\ LocalsInit
    /\ SingleProcess

\* an uncaught exception of class e ends the run
Raise(e) ==
    /\ pc' = "raised"
    /\ error' = e

inputVars == <<argv, environ, args, tensorboard_available, wandb_available,
               is_main_process, num_batches>>

setupVars == <<bound, ddim_sampler, dataset, transform_set, path, loaded_path,
               first_epoch, resume_step>>

loopVars == <<epoch, step, accum_step, global_step, calls, logs, tracker_log,
              sampled, pipeline, unet_weights, save_state_calls, pipeline_saves,
              ended>>

----------------------------------------------------------------------------
(* main: set-up, lines 292-881 *)

\* lines 305-311: the selected backend is missing
\* (mutant: both backends are required whichever is selected)
LoggerMissing_Either(a, tb, wb) == ~tb \/ ~wb

LoggerMissing(a, tb, wb) ==
    IF a.logger = S_tensorboard THEN ~tb
    ELSE IF a.logger = S_wandb THEN ~wb
    ELSE FALSE

\* lines 292-312
CheckLogger ==
    /\ pc = "main"
    /\ IF LoggerMissing(args, tensorboard_available, wandb_available)
       THEN Raise("ImportError") /\ UNCHANGED bound
       ELSE /\ pc' = "init_model"
            /\ error' = error
            /\ bound' = IF args.logger = S_wandb THEN bound \cup {"wandb"} ELSE bound
    /\ UNCHANGED <<rankVars, inputVars, output_dir, ddim_sampler, dataset, transform_set,
                   path, loaded_path, first_epoch, resume_step, loopVars>>

\* lines 380-585: the denoiser, the autoencoder and the EMA copy.  ddim_sampler
\* and vae are assigned in the built-in configuration's branch only.
InitModel ==
    /\ pc = "init_model"
    /\ pc' = "init_scheduler"
    /\ bound' = bound \cup {"model"}
                  \cup (IF args.model_config_name_or_path = None
                        THEN {"ddim_sampler", "vae"} ELSE {})
                  \cup (IF args.use_ema THEN {"ema_model"} ELSE {})
    /\ ddim_sampler' = FALSE
    /\ UNCHANGED <<rankVars, error, inputVars, output_dir, dataset, transform_set, path,
                   loaded_path, first_epoch, resume_step, loopVars>>

\* line 601: DDPMScheduler.__init__ of the diffusers versions line 36 admits
\* takes prediction_type
accepts_prediction_type == TRUE

\* lines 598-642: the training and the sampling noise schedulers, the optimizer
InitScheduler ==
    /\ pc = "init_scheduler"
    /\ IF accepts_prediction_type
       THEN IF "ddim_sampler" \notin bound
            THEN Raise("UnboundLocalError") /\ bound' = bound \cup {"noise_scheduler"}
            ELSE /\ pc' = "dataset"
                 /\ error' = error
                 /\ bound' = bound \cup {"noise_scheduler", "test_noise_scheduler",
                                         "optimizer"}
       ELSE \* line 626 reads test_noise_scheduler before any assignment
            Raise("UnboundLocalError") /\ bound' = bound \cup {"noise_scheduler"}
    /\ UNCHANGED <<rankVars, inputVars, output_dir, ddim_sampler, dataset, transform_set,
                   path, loaded_path, first_epoch, resume_step, loopVars>>

\* lines 680-786: which loader builds `dataset`, and from which path
\* (mutant: the image folder is preferred whenever train_data_dir is given)
DatasetFor_DirFirst(a) ==
    IF a.train_data_dir # None
    THEN [loader |-> "imagefolder", source |-> a.train_data_dir]
    ELSE [loader |-> "load_dataset", source |-> a.dataset_name]

DatasetFor(a) ==
    IF a.dataset_name # None
    THEN IF a.dataset_mo
         THEN IF In(S_multid, a.dataset_name)
              THEN [loader |-> "Multidsprites", source |-> a.dataset_name]
              ELSE IF In(S_clevr, a.dataset_name)
              THEN IF In(S_clevrtex, a.dataset_name)
                   THEN [loader |-> "ClevrTex", source |-> a.dataset_name]
                   ELSE [loader |-> "Clevr", source |-> a.dataset_name]
              ELSE IF In(S_movi_e, a.dataset_name) \/ In(S_movi_c, a.dataset_name)
              THEN [loader |-> "MOVI_E", source |-> a.dataset_name]
              ELSE IF In(S_msn_easy, a.dataset_name)
              THEN [loader |-> "MSN_Easy", source |-> a.dataset_name]
              ELSE IF In(S_PTR, a.dataset_name)
              THEN [loader |-> "PTR", source |-> a.dataset_name]
              ELSE [loader |-> "unbound", source |-> None]
         ELSE [loader |-> "load_dataset", source |-> a.dataset_name]
    ELSE [loader |-> "imagefolder", source |-> a.train_data_dir]

\* lines 644-786
BuildDataset ==
    /\ pc = "dataset"
    /\ pc' = "dataloader"
    /\ dataset' = DatasetFor(args)
    /\ bound' = IF DatasetFor(args).loader # "unbound"
                THEN bound \cup {"dataset"} ELSE bound
    /\ UNCHANGED <<rankVars, error, inputVars, output_dir, ddim_sampler, transform_set,
                   path, loaded_path, first_epoch, resume_step, loopVars>>

\* lines 791-848: len(dataset), set_transform, the dataloader, accelerator.prepare,
\* vae.to, the counters
PrepareData ==
    /\ pc = "dataloader"
    /\ IF "dataset" \notin bound
       THEN Raise("UnboundLocalError") /\ UNCHANGED transform_set
       ELSE /\ transform_set' = ~args.dataset_mo
            /\ IF "vae" \notin bound
               THEN Raise("UnboundLocalError")
               ELSE pc' = "resume" /\ error' = error
    /\ global_step' = 0
    /\ first_epoch' = 0
    /\ UNCHANGED <<rankVars, inputVars, output_dir, bound, ddim_sampler, dataset, path,
                   loaded_path, resume_step, epoch, step, accum_step, calls, logs,
                   tracker_log, sampled, pipeline, unet_weights, save_state_calls,
                   pipeline_saves, ended>>

\* line 836: math.ceil(len(train_dataloader) / args.gradient_accumulation_steps)
num_update_steps_per_epoch(a, n) ==
    (n + a.gradient_accumulation_steps - 1) \div a.gradient_accumulation_steps

\* line 837, logged as 'Total optimization steps' (line 845)
max_train_steps(a, n) == a.num_epochs * num_update_steps_per_epoch(a, n)

\* os.path.basename(p)
RECURSIVE Basename(_)
Basename(p) ==
    IF \A i \in 1..Len(p) : p[i] # "/" THEN p
    ELSE Basename(Tail(p))

\* line 858: the sort key int(x.split("-")[1])
CheckpointKey(d) == IntOf(Split(d)[2])

\* sorted(dirs, key=...): ascending by key
RECURSIVE SortedByKey(_)
SortedByKey(dirs) ==
    IF dirs = {} THEN <<>>
    ELSE LET last == CHOOSE d \in dirs :
                        \A e \in dirs : CheckpointKey(e) <= CheckpointKey(d)
         IN Append(SortedByKey(dirs \ {last}), last)

\* lines 856-859: the most recent checkpoint of a listing, None if there is none
MostRecent(listing) ==
    LET dirs == SortedByKey({d \in listing : StartsWith(d, S_checkpoint)})
    IN IF Len(dirs) > 0 THEN dirs[Len(dirs)] ELSE None

\* lines 852-859: the local `path`
ResumePath(a, listing) ==
    IF a.resume_from_checkpoint # S_latest
    THEN Basename(a.resume_from_checkpoint)
    ELSE MostRecent(listing)

\* line 867: the path handed to torch.load
LoadPath(a, p) == a.resume_from_checkpoint

\* line 877: the optimizer step training resumes from, "lets start from the
\* beginning" (mutant: taken from the checkpoint, as the commented-out line 874)
ResumeGlobalStep_FromCheckpoint(p) == 1

ResumeGlobalStep(p) == 0

\* lines 850-881.  torch.load raises when no file of that name exists.
Resume ==
    /\ pc = "resume"
    /\ IF args.resume_from_checkpoint # None /\ args.resume_from_checkpoint # <<>>
       THEN LET p == ResumePath(args, output_dir)
                nups == num_update_steps_per_epoch(args, num_batches)
                gs == ResumeGlobalStep(LoadPath(args, p))
                resume_global_step == gs * args.gradient_accumulation_steps
            IN IF p = None
               THEN /\ args' = [args EXCEPT !.resume_from_checkpoint = None]
                    /\ path' = p
                    /\ pc' = "epoch"
                    /\ bound' = bound \cup {"path", "dirs"}
                    /\ UNCHANGED <<error, loaded_path, global_step,
                                   first_epoch, resume_step>>
               ELSE /\ path' = LoadPath(args, p)
                    /\ loaded_path' = LoadPath(args, p)
                    /\ args' = args
                    /\ \E file_exists \in BOOLEAN :
                          IF file_exists
                          THEN /\ pc' = "epoch"
                               /\ error' = error
                               /\ global_step' = gs
                               /\ first_epoch' = gs \div nups
                               /\ resume_step' =
                                      resume_global_step
                                          % (nups * args.gradient_accumulation_steps)
                               /\ bound' = bound \cup
                                      {"path", "resume_global_step", "resume_step"}
                                      \cup (IF args.resume_from_checkpoint = S_latest
                                            THEN {"dirs"} ELSE {})
                          ELSE /\ Raise("FileNotFoundError")
                               /\ bound' = bound \cup {"path"}
                                      \cup (IF args.resume_from_checkpoint = S_latest
                                            THEN {"dirs"} ELSE {})
                               /\ UNCHANGED <<global_step, first_epoch,
                                              resume_step>>
       ELSE /\ pc' = "epoch"
            /\ UNCHANGED <<error, args, path, loaded_path, bound, global_step,
                           first_epoch, resume_step>>
    /\ epoch' = first_epoch'
    /\ UNCHANGED <<rankVars, argv, environ, tensorboard_available, wandb_available,
                   is_main_process, num_batches, output_dir, ddim_sampler, dataset,
                   transform_set, step, accum_step, calls, logs, tracker_log,
                   sampled, pipeline, unet_weights, save_state_calls,
                   pipeline_saves, ended>>

----------------------------------------------------------------------------
(* main: the training loop, lines 883-1103 *)

\* lines 884-889: the next epoch of range(first_epoch, args.num_epochs) starts
\* line 884: range(first_epoch, args.num_epochs) has an epoch e left
\* (mutant: the range includes num_epochs)
EpochsLeft_Inclusive(a, e) == e <= a.num_epochs

EpochsLeft(a, e) == e < a.num_epochs

EpochBegin ==
    /\ pc = "epoch"
    /\ EpochsLeft(args, epoch)
    /\ pc' = "batch"
    /\ step' = 0
    /\ UNCHANGED <<rankVars, error, inputVars, output_dir, setupVars, epoch, accum_step,
                   global_step, calls, logs, tracker_log, sampled, pipeline,
                   unet_weights, save_state_calls, pipeline_saves, ended>>

\* lines 927-968: the branch of the loss computation
\* (mutant: every type other than epsilon is trained as 'sample')
PredictionBranch_ElseSample(t) ==
    IF t = S_epsilon THEN "epsilon" ELSE "sample"

PredictionBranch(t) ==
    IF t = S_epsilon THEN "epsilon"
    ELSE IF t = S_sample THEN "sample"
    ELSE "unsupported"

\* locals the loss branch assigns (lines 948-956, 959-966)
LossLocals(branch) ==
    IF branch = "epsilon"
    THEN {"alpha_t", "snr_weights", "unweighted_loss", "loss", "loss_log", "loss_x_0"}
    ELSE {"alpha_t", "snr_weights", "loss"}

\* accelerator.accumulate (line 923): the accumulation counter after this batch
AccumAfter(count, last_batch) == IF last_batch THEN 0 ELSE count + 1

\* accelerator.sync_gradients (lines 972, 979) for this batch
\* (mutant: gradients are synchronized on every gradient_accumulation_steps-th
\* batch only, not at the end of the dataloader)
SyncGradients_NoLast(count, last_batch, a) ==
    (count + 1) % a.gradient_accumulation_steps = 0

SyncGradients(count, last_batch, a) ==
    last_batch \/ (AccumAfter(count, last_batch) % a.gradient_accumulation_steps = 0)

\* lines 979-981: ema_model.step is called for this batch
\* (mutant: the EMA update sits outside the sync_gradients test)
EmaStepDue_EveryBatch(sync, a) == a.use_ema

EmaStepDue(sync, a) == sync /\ a.use_ema

\* line 892: the skip test, read left to right: whether resume_step is read
\* (mutant: without the args.resume_from_checkpoint guard)
SkipReadsResumeStep_Unguarded(a) == epoch = first_epoch

SkipReadsResumeStep(a) ==
    /\ a.resume_from_checkpoint # None
    /\ a.resume_from_checkpoint # <<>>
    /\ epoch = first_epoch

\* line 998: the test before accelerator.log
\* (mutant: the metrics are sent after every batch)
LogDue_EveryBatch(gs) == TRUE

LogDue(gs) == gs % 1000 = 0

\* line 897: batch["input"] exists (datasets of load_dataset yield it through
\* transform_images only)
HasInput == dataset.loader \in {"load_dataset", "imagefolder"} => transform_set

\* one iteration of the loop of line 890: lines 890-999
TrainBatch ==
    /\ pc = "batch"
    /\ step < num_batches
    /\ LET last_batch == (step = num_batches - 1)
           branch == PredictionBranch(args.prediction_type)
           sync == SyncGradients(accum_step, last_batch, args)
           stepped == [calls EXCEPT !.backward = @ + 1,
                                    !.optimizer_step = @ + 1,
                                    !.lr_scheduler_step = @ + 1,
                                    !.ema_step = IF EmaStepDue(sync, args)
                                                 THEN @ + 1 ELSE @]
           gs == IF sync THEN global_step + 1 ELSE global_step
           inputs == {"batch", "clean_images", "scaling_factor", "latents", "noise",
                      "bsz", "timesteps", "noisy_images", "model_output"}
           next_pc == IF last_batch THEN "sample" ELSE "batch"
       IN IF SkipReadsResumeStep(args) /\ "resume_step" \notin bound
          THEN /\ Raise("UnboundLocalError")
               /\ UNCHANGED <<bound, step, accum_step, global_step, calls, logs,
                              tracker_log>>
          ELSE IF SkipReadsResumeStep(args) /\ step < resume_step
          THEN /\ pc' = next_pc
               /\ step' = step + 1
               /\ UNCHANGED <<error, bound, accum_step, global_step, calls, logs,
                              tracker_log>>
          ELSE IF ~HasInput
          THEN /\ Raise("KeyError")
               /\ bound' = bound \cup {"batch"}
               /\ UNCHANGED <<step, accum_step, global_step, calls, logs,
                              tracker_log>>
          ELSE IF branch = "unsupported"
          THEN /\ Raise("ValueError")
               /\ bound' = bound \cup inputs
               /\ UNCHANGED <<step, accum_step, global_step, calls, logs,
                              tracker_log>>
          ELSE /\ bound' = bound \cup inputs \cup LossLocals(branch)
               /\ calls' = stepped
               /\ accum_step' = AccumAfter(accum_step, last_batch)
               /\ global_step' = gs
               /\ IF {"loss_log", "loss_x_0"} \subseteq bound'
                  THEN /\ logs' = {[loss |-> "loss_log", loss_x_0 |-> "loss_x_0",
                                    lr |-> stepped.lr_scheduler_step, step |-> gs,
                                    ema_decay |-> args.use_ema]}
                       /\ tracker_log' = IF LogDue(gs)
                                         THEN Append(tracker_log, gs)
                                         ELSE tracker_log
                       /\ step' = step + 1
                       /\ pc' = next_pc
                       /\ error' = error
                  ELSE /\ Raise("UnboundLocalError")
                       /\ UNCHANGED <<logs, tracker_log, step>>
    /\ UNCHANGED <<rankVars, inputVars, output_dir, ddim_sampler, dataset, transform_set,
                   path, loaded_path, first_epoch, resume_step, epoch, sampled,
                   pipeline, unet_weights, save_state_calls, pipeline_saves, ended>>

\* line 1006 (mutant: the last epoch is not sampled unless its index is due)
SampleDue_NoLast(a, e) == e % a.save_images_epochs = 0

SampleDue(a, e) ==
    e % a.save_images_epochs = 0 \/ e = a.num_epochs - 1

\* line 1092 (mutant: the period counts epochs from one)
SaveDue_FromOne(a, e) ==
    (e + 1) % a.save_model_epochs = 0 \/ e = a.num_epochs - 1

SaveDue(a, e) ==
    e % a.save_model_epochs = 0 \/ e = a.num_epochs - 1

\* lines 1000-1090: the barrier, then the sampling loop and the image log
SampleImages ==
    /\ pc = "sample"
    /\ IF is_main_process /\ SampleDue(args, epoch)
       THEN IF \/ args.use_ema /\ "ema_model" \notin bound
               \/ "ddim_sampler" \notin bound
               \/ ~({"latents", "clean_images", "scaling_factor"} \subseteq bound)
               \/ args.logger = S_wandb /\ "wandb" \notin bound
            THEN /\ Raise("UnboundLocalError")
                 /\ UNCHANGED <<bound, unet_weights, pipeline, sampled>>
            ELSE /\ unet_weights' = IF args.use_ema THEN "ema" ELSE unet_weights
                 /\ pipeline' = epoch
                 /\ bound' = bound \cup {"unet", "pipeline", "generator", "image",
                                         "images_processed", "vae_recon", "gt"}
                 /\ sampled' = sampled \cup
                        {[epoch |-> epoch, batch_size |-> 32,
                          num_inference_steps |-> 1000, tracker |-> args.logger]}
                 /\ pc' = "save"
                 /\ error' = error
       ELSE /\ pc' = "save"
            /\ UNCHANGED <<error, bound, unet_weights, pipeline, sampled>>
    /\ UNCHANGED <<rankVars, inputVars, output_dir, ddim_sampler, dataset, transform_set,
                   path, loaded_path, first_epoch, resume_step, epoch, step,
                   accum_step, global_step, calls, logs, tracker_log,
                   save_state_calls, pipeline_saves, ended>>

\* line 1094: the checkpoint's directory
\* (mutant: named by the optimizer step, as the commented-out lines 985-989 do)
SavePath_Step(e, gs) == CheckpointName(gs)

SavePath(e, gs) == CheckpointName(e)

\* lines 1092-1101: accelerator.save_state, then pipeline.save_pretrained
SaveModel ==
    /\ pc = "save"
    /\ IF is_main_process /\ SaveDue(args, epoch)
       THEN /\ save_state_calls' = save_state_calls \cup
                   {[epoch |-> epoch, path |-> SavePath(epoch, global_step)]}
            /\ IF "pipeline" \notin bound
               THEN /\ Raise("UnboundLocalError")
                    /\ output_dir' = output_dir \cup {SavePath(epoch, global_step)}
                    /\ UNCHANGED <<pipeline_saves, epoch>>
               ELSE /\ output_dir' = output_dir \cup {SavePath(epoch, global_step),
                                                     S_unet, S_scheduler}
                    /\ pipeline_saves' = pipeline_saves \cup
                           {[epoch |-> epoch, built |-> pipeline]}
                    /\ epoch' = epoch + 1
                    /\ pc' = "epoch"
                    /\ error' = error
       ELSE /\ epoch' = epoch + 1
            /\ pc' = "epoch"
            /\ UNCHANGED <<error, output_dir, save_state_calls, pipeline_saves>>
    /\ UNCHANGED <<rankVars, inputVars, setupVars, step, accum_step, global_step, calls,
                   logs, tracker_log, sampled, pipeline, unet_weights, ended>>

\* line 1103
EndTraining ==
    /\ pc = "epoch"
    /\ ~EpochsLeft(args, epoch)
    /\ pc' = "done"
    /\ ended' = ended + 1
    /\ UNCHANGED <<rankVars, error, inputVars, output_dir, setupVars, epoch, step,
                   accum_step, global_step, calls, logs, tracker_log, sampled,
                   pipeline, unet_weights, save_state_calls, pipeline_saves>>

Next ==
    \/ CheckLogger
    \/ InitModel
    \/ InitScheduler
    \/ BuildDataset
    \/ PrepareData
    \/ Resume
    \/ EpochBegin
    \/ TrainBatch
    \/ SampleImages
    \/ SaveModel
    \/ EndTraining

Spec == Init /\ [][Next]_vars

\* Inputs of the runs whose termination is checked: the default model
\* configuration, a hub dataset, every length of the loop
RunArgs ==
    [dataset_name : {S_cifar10},
     dataset_mo : {FALSE},
     train_data_dir : {None},
     model_config_name_or_path : {None},
     num_epochs : 1..MaxEpochs,
     save_images_epochs : 1..MaxPeriod,
     save_model_epochs : 1..MaxPeriod,
     gradient_accumulation_steps : {1, 2},
     use_ema : BOOLEAN,
     logger : {S_tensorboard},
     local_rank : {-1},
     prediction_type : {S_epsilon, S_sample},
     resume_from_checkpoint : {None, S_out_ckpt_pt},
     eval_batch_size : {16},
     ddpm_num_inference_steps : {1000},
     checkpointing_steps : {500}]

InitRun ==
    /\ pc = "main"
    /\ error = "none"
    /\ argv = None
    /\ environ = None
    /\ args \in RunArgs
    /\ tensorboard_available = TRUE
    /\ wandb_available = TRUE
    /\ is_main_process \in BOOLEAN
    /\ num_batches \in {1, 2}
    /\ output_dir = {}
    /\ LocalsInit
    /\ SingleProcess

\* main is one sequential process that runs until it returns or raises
SpecFair == InitRun /\ [][Next]_vars /\ WF_vars(Next)

----------------------------------------------------------------------------
(* Properties of main *)

Supported(t) == t \in {S_epsilon, S_sample}

\* C2: with a prediction_type that is neither 'epsilon' nor 'sample' no backward
\* pass, optimizer step, LR-scheduler step or global_step increment ever
\* happens, and the run never gets past its first batch: it ends in an error.
C2_UnsupportedRaisesBeforeStep ==
    ~Supported(args.prediction_type) =>
        /\ calls.backward = 0
        /\ calls.optimizer_step = 0
        /\ calls.lr_scheduler_step = 0
        /\ calls.ema_step = 0
        /\ global_step = 0
        /\ step = 0
        /\ pc \notin {"sample", "save", "done"}

C2_Witness ==
    /\ ~Supported(args.prediction_type)
    /\ pc = "raised"
    /\ error = "ValueError"
    /\ "model_output" \in bound

\* C4: once the dataset is built, a configuration with dataset_name set has a
\* dataset built from dataset_name by the hub/path loader or an object-centric
\* loader, whatever train_data_dir is; the imagefolder loader over
\* train_data_dir is used only when dataset_name is None.
C4_TrainDataDirIgnored ==
    "dataset" \in bound =>
        IF args.dataset_name # None
        THEN /\ dataset.source = args.dataset_name
             /\ dataset.loader # "imagefolder"
             /\ dataset.loader = "load_dataset" <=> ~args.dataset_mo
        ELSE /\ dataset.loader = "imagefolder"
             /\ dataset.source = args.train_data_dir

C4_Witness ==
    /\ "dataset" \in bound
    /\ args.dataset_name = S_cifar10
    /\ args.train_data_dir = S_data
    /\ dataset = [loader |-> "load_dataset", source |-> S_cifar10]

SelectedAvailable ==
    IF args.logger = S_tensorboard THEN tensorboard_available ELSE wandb_available

\* C5: when the selected logging backend is not installed, main raises
\* ImportError before the model is constructed, the dataset is loaded or any
\* batch is trained; ImportError is raised in no other case, so the backend
\* that was not selected never causes it.
C5_ImportErrorOnlyForSelected ==
    /\ ~SelectedAvailable =>
          /\ pc = "main" \/ (pc = "raised" /\ error = "ImportError")
          /\ "model" \notin bound
          /\ "dataset" \notin bound
          /\ calls.backward = 0
    /\ SelectedAvailable => error # "ImportError"

C5_Witness ==
    /\ pc = "raised"
    /\ error = "ImportError"
    /\ args.logger = S_wandb
    /\ ~wandb_available
    /\ tensorboard_available

\* C7: every accelerator.save_state call is made by the main process at the end
\* of an epoch e that is due (e % save_model_epochs = 0 or e = num_epochs - 1)
\* and writes output_dir/checkpoint-e; every due epoch whose end the main
\* process has passed has such a call; no other checkpoint path is written.
C7_CheckpointPerDueEpoch ==
    /\ \A c \in save_state_calls :
          /\ is_main_process
          /\ c.epoch \in 0..(args.num_epochs - 1)
          /\ c.epoch % args.save_model_epochs = 0 \/ c.epoch = args.num_epochs - 1
          /\ c.path = CheckpointName(c.epoch)
          /\ c.path \in output_dir
          /\ c.epoch < epoch \/ (c.epoch = epoch /\ pc = "raised")
    /\ \A e \in 0..(args.num_epochs - 1) :
          (/\ e < epoch
           /\ is_main_process
           /\ (e % args.save_model_epochs = 0 \/ e = args.num_epochs - 1))
              => [epoch |-> e, path |-> CheckpointName(e)] \in save_state_calls

C7_Witness ==
    /\ pc = "done"
    /\ args.num_epochs = 3
    /\ args.save_model_epochs = 2
    /\ global_step > 1
    /\ {c.path : c \in save_state_calls} = {CheckpointName(0), CheckpointName(2)}

\* C8: every sampling run is made by the main process at the end of an epoch e
\* that is due (e % save_images_epochs = 0 or e = num_epochs - 1), after the
\* last batch of e; every due epoch whose end the main process has passed was
\* sampled and its images logged to the selected tracker.
C8_SamplingPerDueEpoch ==
    /\ \A r \in sampled :
          /\ is_main_process
          /\ r.epoch \in 0..(args.num_epochs - 1)
          /\ r.epoch % args.save_images_epochs = 0 \/ r.epoch = args.num_epochs - 1
          /\ r.tracker = args.logger
          /\ r.epoch <= epoch
          /\ r.epoch = epoch => pc \in {"save", "raised"} /\ step = num_batches
    /\ \A e \in 0..(args.num_epochs - 1) :
          (/\ e < epoch \/ (e = epoch /\ pc = "save")
           /\ is_main_process
           /\ (e % args.save_images_epochs = 0 \/ e = args.num_epochs - 1))
              => \E r \in sampled : r.epoch = e
    /\ ~is_main_process => sampled = {}

C8_Witness ==
    /\ pc = "done"
    /\ args.num_epochs = 3
    /\ args.save_images_epochs = 2
    /\ num_batches = 2
    /\ {r.epoch : r \in sampled} = {0, 2}

\* C9 (as claimed): for 'epsilon' and for 'sample', a batch that reaches the
\* backward pass completes without error and builds the metrics record.
C9_BatchCompletes ==
    (Supported(args.prediction_type) /\ calls.backward > 0) =>
        /\ pc # "raised"
        /\ logs # {}

\* C10 (as claimed): with resume_from_checkpoint "latest" and a checkpoint-N
\* directory in output_dir, the checkpoint loaded is the directory with the
\* numerically largest N.
C10_LatestLoadsLast ==
    (/\ args.resume_from_checkpoint = S_latest
     /\ loaded_path # None
     /\ save_state_calls = {})
        => loaded_path = MostRecent(output_dir)

\* C11 (as claimed): whenever global_step has reached a positive multiple of
\* checkpointing_steps, a checkpoint of the training state has been written in
\* the running epoch before the next batch is trained.
C11_CheckpointEverySteps ==
    (/\ pc \in {"batch", "sample"}
     /\ global_step > 0
     /\ global_step % args.checkpointing_steps = 0)
        => \E c \in save_state_calls : c.epoch = epoch

\* C12 (as claimed): every sampling run generates eval_batch_size images and
\* runs ddpm_num_inference_steps reverse-diffusion steps.
C12_SamplingUsesConfiguration ==
    \A r \in sampled :
        /\ r.batch_size = args.eval_batch_size
        /\ r.num_inference_steps = args.ddpm_num_inference_steps

\* C13 (as claimed): for both settings of model_config_name_or_path, once the
\* training noise scheduler is constructed the autoencoder, the sampler switch
\* and the sampling noise scheduler are defined too, and set-up goes on.
C13_ConstructionCompletes ==
    "noise_scheduler" \in bound =>
        /\ {"model", "vae", "ddim_sampler", "test_noise_scheduler"} \subseteq bound
        /\ "optimizer" \in bound

\* C14: with use_ema set, ema_model.step has been called exactly once per
\* optimizer update, so the number of EMA updates equals global_step (and is
\* below the number of batches whenever a batch only accumulated); with use_ema
\* unset it is never called.
C14_EmaStepPerUpdate ==
    /\ args.use_ema => calls.ema_step = global_step
    /\ ~args.use_ema => calls.ema_step = 0
    /\ calls.ema_step <= calls.backward

C14_Witness ==
    /\ args.use_ema
    /\ args.gradient_accumulation_steps = 2
    /\ pc = "done"
    /\ calls.ema_step = global_step
    /\ calls.ema_step > 0
    /\ calls.ema_step < calls.backward

\* C15: global_step is 0 until the loop starts; after k batches of an epoch it
\* has grown by one for every gradient_accumulation_steps-th batch, and by one
\* more for the last batch of the epoch when that is not such a batch; it never
\* exceeds max_train_steps and equals it when training ends.
C15_GlobalStepCountsUpdates ==
    /\ global_step <= max_train_steps(args, num_batches)
    /\ pc \in {"main", "init_model", "init_scheduler", "dataset", "dataloader",
               "resume"} => global_step = 0
    /\ pc = "batch" =>
          global_step = epoch * num_update_steps_per_epoch(args, num_batches)
                          + (step \div args.gradient_accumulation_steps)
    /\ pc \in {"sample", "save"} =>
          global_step = (epoch + 1) * num_update_steps_per_epoch(args, num_batches)
    /\ pc = "epoch" =>
          global_step = epoch * num_update_steps_per_epoch(args, num_batches)
    /\ pc = "done" => global_step = max_train_steps(args, num_batches)

C15_Witness ==
    /\ pc = "done"
    /\ args.gradient_accumulation_steps = 2
    /\ num_batches = 1
    /\ args.num_epochs = 3
    /\ global_step = 3
    /\ calls.backward = 3

\* batches the loop has trained if it skipped none
BatchesEntered ==
    epoch * num_batches + (IF pc \in {"batch", "sample", "save"} THEN step ELSE 0)

\* C16: when the resume block ran with "latest" and found no checkpoint
\* directory (path is None), nothing is loaded, resume_from_checkpoint is
\* None, training starts at epoch 0 with global_step 0, every batch entered is
\* trained, and resume_step is neither bound nor read.
C16_LatestWithoutCheckpoint ==
    ("path" \in bound /\ path = None) =>
        /\ loaded_path = None
        /\ args.resume_from_checkpoint = None
        /\ first_epoch = 0
        /\ "resume_step" \notin bound
        /\ (pc = "epoch" /\ epoch = 0) => (global_step = 0 /\ calls.backward = 0)
        /\ pc # "raised" => calls.backward = BatchesEntered
        /\ error = "UnboundLocalError" =>
              (args.prediction_type = S_sample /\ "loss" \in bound)

C16_Witness ==
    /\ "path" \in bound
    /\ path = None
    /\ "dirs" \in bound
    /\ pc = "done"
    /\ args.num_epochs = 2
    /\ num_batches = 2
    /\ calls.backward = 4

C18_SavedPipelineIsFresh ==
    \A s \in pipeline_saves : s.built = s.epoch

\* C19 (as claimed): sampling leaves the training state unchanged: whenever a
\* batch is about to be trained, the denoiser holds the parameters of the last
\* optimizer update, not the EMA copy.
C19_SamplingKeepsParameters ==
    pc = "batch" => unet_weights = "trained"

Min(x, y) == IF x <= y THEN x ELSE y

C21_DatasetBoundAndTransformed ==
    /\ pc = "dataloader" => "dataset" \in bound
    /\ (/\ pc \in {"resume", "epoch", "batch", "sample", "save", "done"}
        /\ dataset.loader \in {"load_dataset", "imagefolder"}) => transform_set
    /\ ("dataset" \in bound /\ args.dataset_name # None /\ args.dataset_mo) =>
          /\ In(S_multid, args.dataset_name) => dataset.loader = "Multidsprites"
          /\ (~In(S_multid, args.dataset_name) /\ In(S_clevrtex, args.dataset_name))
                => dataset.loader = "ClevrTex"

----------------------------------------------------------------------------
(* main in a multi-process run: the loop of lines 884-1103 in every process, *)
(* with the default model configuration, prediction type 'epsilon' and no    *)
(* resume.  The processes meet only at accelerator.wait_for_everyone().      *)

\* Flags the loop reads in a multi-process run
RanksArgs ==
    [num_epochs : 1..MaxEpochs,
     save_images_epochs : 1..MaxPeriod,
     save_model_epochs : 1..MaxPeriod,
     push_to_hub : BOOLEAN]

\* accelerator.is_main_process, lines 1005 and 1093: the process of index 0
IsMainProcess(p) == p = 0

\* process q has run every training batch of epoch e
FinishedTraining(q, e) ==
    \/ ranks[q].epoch > e
    \/ /\ ranks[q].epoch = e
       /\ ranks[q].pc # "batch" \/ ranks[q].step = num_batches

\* what process p does at kind k for epoch e, with the processes that still
\* train epoch e at that moment
Effect(p, k, e) ==
    [rank |-> p, kind |-> k, epoch |-> e,
     behind |-> {q \in DOMAIN ranks : ~FinishedTraining(q, e)}]

InitRanks ==
    /\ pc = "main"
    /\ error = "none"
    /\ argv = None
    /\ environ = None
    /\ args \in RanksArgs
    /\ tensorboard_available = TRUE
    /\ wandb_available = TRUE
    /\ is_main_process = TRUE
    /\ num_batches \in {1, 2}
    /\ output_dir = {}
    /\ LocalsInit
    /\ \E n \in 2..MaxProcs :
          ranks = [p \in 0..(n - 1) |-> [pc |-> "batch", epoch |-> 0, step |-> 0, waits |-> 0]]
    /\ effects = {}

processVars == <<pc, error, argv, environ, args, mainVars>>

\* lines 890-999: one batch of process p
RankTrainBatch(p) ==
    /\ ranks[p].pc = "batch"
    /\ ranks[p].step < num_batches
    /\ ranks' = [ranks EXCEPT ![p].step = @ + 1]
    /\ UNCHANGED <<effects, processVars>>

\* line 1002: process p calls accelerator.wait_for_everyone()
RankWait(p) ==
    /\ ranks[p].pc = "batch"
    /\ ranks[p].step = num_batches
    /\ ranks' = [ranks EXCEPT ![p].pc = "barrier", ![p].waits = @ + 1]
    /\ UNCHANGED <<effects, processVars>>

\* line 1002: the call returns in p once every process has made it as often as p
\* (mutant: the call returns at once)
BarrierOpen_NoWait(p) == TRUE

BarrierOpen(p) == \A q \in DOMAIN ranks : ranks[q].waits >= ranks[p].waits

RankPass(p) ==
    /\ ranks[p].pc = "barrier"
    /\ BarrierOpen(p)
    /\ ranks' = [ranks EXCEPT ![p].pc = "sample"]
    /\ UNCHANGED <<effects, processVars>>

\* lines 1005-1090
RankSample(p) ==
    /\ ranks[p].pc = "sample"
    /\ ranks' = [ranks EXCEPT ![p].pc = "save"]
    /\ effects' = IF IsMainProcess(p) /\ SampleDue(args, ranks[p].epoch)
                  THEN effects \cup {Effect(p, "sample", ranks[p].epoch)}
                  ELSE effects
    /\ UNCHANGED processVars

\* lines 1005, 1092-1101, and the next turn of the loop of line 884
RankSave(p) ==
    /\ ranks[p].pc = "save"
    /\ LET e == ranks[p].epoch
       IN /\ effects' =
                IF IsMainProcess(p) /\ SaveDue(args, e)
                THEN effects \cup {Effect(p, "save_state", e),
                                   Effect(p, "save_pretrained", e)}
                             \cup (IF args.push_to_hub
                                   THEN {Effect(p, "push_to_hub", e)} ELSE {})
                ELSE effects
          /\ ranks' = IF e + 1 < args.num_epochs
                      THEN [ranks EXCEPT ![p].pc = "batch", ![p].epoch = e + 1,
                                         ![p].step = 0]
                      ELSE [ranks EXCEPT ![p].pc = "end"]
    /\ UNCHANGED processVars

\* line 1103
RankEndTraining(p) ==
    /\ ranks[p].pc = "end"
    /\ ranks' = [ranks EXCEPT ![p].pc = "done"]
    /\ UNCHANGED <<effects, processVars>>

NextRanks ==
    \/ \E p \in DOMAIN ranks : RankTrainBatch(p)
    \/ \E p \in DOMAIN ranks : RankWait(p)
    \/ \E p \in DOMAIN ranks : RankPass(p)
    \/ \E p \in DOMAIN ranks : RankSample(p)
    \/ \E p \in DOMAIN ranks : RankSave(p)
    \/ \E p \in DOMAIN ranks : RankEndTraining(p)

SpecRanks == InitRanks /\ [][NextRanks]_vars

\* C22: in a multi-process run the main process starts the sampling loop, the
\* checkpoint save, the pipeline save or the hub push of epoch e only after
\* every process has finished all training batches of epoch e, and these four
\* are performed by the main process only.
C22_BarrierOrdersTrainingBeforeSaving ==
    /\ \A x \in effects : IsMainProcess(x.rank) /\ x.behind = {}
    /\ \A p \in DOMAIN ranks :
          (IsMainProcess(p) /\ ranks[p].pc \in {"sample", "save"})
              => \A q \in DOMAIN ranks : FinishedTraining(q, ranks[p].epoch)
    /\ \A p \in DOMAIN ranks :
          (IsMainProcess(p) /\ ranks[p].pc = "done") =>
              \A e \in 0..(args.num_epochs - 1) :
                  /\ SampleDue(args, e) => \E x \in effects : x.kind = "sample" /\ x.epoch = e
                  /\ SaveDue(args, e) => \E x \in effects : x.kind = "save_state" /\ x.epoch = e

C22_Witness ==
    /\ Cardinality(DOMAIN ranks) = 3
    /\ num_batches = 2
    /\ \E x \in effects : x.kind = "push_to_hub" /\ x.epoch = 1 /\ x.rank = 0
    /\ \E x \in effects : x.kind = "sample" /\ x.epoch = 1
    /\ \E q \in DOMAIN ranks : ranks[q].epoch = 2 /\ ranks[q].pc = "barrier"

\* the training loop of line 884 is about to start, with the default model
\* configuration, prediction type 'epsilon' and batches that carry "input"
C23_LoopEntered ==
    /\ pc = "epoch"
    /\ calls.backward = 0
    /\ args.model_config_name_or_path = None
    /\ args.prediction_type = S_epsilon
    /\ HasInput
    /\ num_batches >= 1
    /\ args.num_epochs >= 1

\* main has returned after one pass over every epoch, the last of which the
\* main process sampled and checkpointed
C23_Returned ==
    /\ pc = "done"
    /\ ended = 1
    /\ epoch = args.num_epochs
    /\ calls.backward = args.num_epochs * num_batches
    /\ is_main_process =>
          /\ \E r \in sampled : r.epoch = args.num_epochs - 1
          /\ \E c \in save_state_calls : c.epoch = args.num_epochs - 1

\* C23: with the default model configuration, prediction type 'epsilon', a
\* non-empty dataloader and num_epochs >= 1, a run that enters the training
\* loop terminates: the epochs are taken in increasing order, once each, the
\* last one is sampled and checkpointed by the main process whatever the
\* periods are, and accelerator.end_training is called exactly once, after
\* that checkpoint.
C23_RunTerminates ==
    /\ C23_LoopEntered ~> C23_Returned
    /\ [][epoch' = epoch \/ epoch' = epoch + 1]_vars
    /\ [][ended' # ended =>
             /\ ended = 0 /\ ended' = 1
             /\ epoch = args.num_epochs
             /\ is_main_process =>
                   \E c \in save_state_calls : c.epoch = args.num_epochs - 1]_vars

C23_Witness ==
    /\ pc = "done"
    /\ ended = 1
    /\ is_main_process
    /\ args.prediction_type = S_epsilon
    /\ args.num_epochs = 3
    /\ args.save_images_epochs = 3
    /\ args.save_model_epochs = 3
    /\ num_batches = 2
    /\ {r.epoch : r \in sampled} = {0, 2}
    /\ {c.epoch : c \in save_state_calls} = {0, 2}

====
